---------------------------- MODULE Spec2Model ----------------------------
(***************************************************************************)
(* A model of the MCP store example: the tool server (cmd/server/main.go)  *)
(* with its three handlers and the help tool, the client                   *)
(* (cmd/client/main.go) that spawns the server as a child process, talks   *)
(* to it over its standard input and output one line at a time, and        *)
(* chains the tool invocations of one user turn.                           *)
(*                                                                         *)
(* JSON values keep their kind, because the code tests it with type        *)
(* assertions: a number is Num(n), a string Str(s), a boolean Bool(b), an  *)
(* array Arr(seq), an object Obj(map). A Go map[string]interface{} is a    *)
(* function from the keys that are present to tagged values, so "key is    *)
(* present" is k \in DOMAIN m. A number x is held as the integer 100*x     *)
(* (hundredths): 2.5 is 250, 20000 is 2000000. Every number the model      *)
(* exercises has at most two decimals, and the two products the handlers   *)
(* compute are exact there (see Times).                                    *)
(***************************************************************************)
EXTENDS Integers, Sequences, FiniteSets, TLC

VARIABLES
    pc,                    \* the client's position in main
    child,                 \* the server process: "none", "running", "exited"
    stdinClosed,           \* the client has closed its end of the child's stdin
    toChild,               \* request lines written and not yet read by the child
    fromChild,             \* response lines written and not yet read by the client
    n,                     \* len(message.ToolCalls) of the current turn
    i,                     \* 1-based position of the range loop of the turn
    toolCall,              \* the invocation the loop is at (toolCall)
    lastStructuredResult,  \* lastStructuredResult; Nil is the nil map
    lastResult,            \* lastResult
    request,               \* the last toolRequest CallTool built
    callLog,               \* per call on the MCPServer: what it wrote and read
    heldFrom,              \* history: which invocation produced lastStructuredResult
    attempted,             \* history: indices whose loop body ran, this turn
    dispatched,            \* history: indices whose request line was written, this turn
    stepOut,               \* history: what the last loop body printed
    earlierTotal,          \* history: an earlier turn ended holding a total_price
    surfaced,              \* history: the last message field decoded in this turn
    spawned,               \* history: the steps of NewMCPServer and what it returned
    released,              \* history: what Close has done to the child, in order
    tools,                 \* tools: what ListTools returned to main
    polish,                \* the second CreateChatCompletion of the turn and its print
    hcall,                 \* handler-level: the CallToolRequest given to a handler
    hret,                  \* handler-level: what the handler returned
    legacyRet              \* handler-level: what the handler of server/server.go returned

vars == <<pc, child, stdinClosed, toChild, fromChild, n, i, toolCall,
          lastStructuredResult, lastResult, request, callLog, heldFrom,
          attempted, dispatched, stepOut, earlierTotal, surfaced, spawned, released,
          tools, polish, hcall, hret, legacyRet>>

clientVars == <<pc, child, stdinClosed, toChild, fromChild, n, i, toolCall,
                lastStructuredResult, lastResult, request, callLog, heldFrom,
                attempted, dispatched, stepOut, earlierTotal, surfaced, spawned, released,
                tools, polish>>

-----------------------------------------------------------------------------
(* Bounds of the model.                                                    *)

\* most tool invocations the translator returns for one turn
MaxCalls == 3

\* most items in the items array of a calculate_total invocation
MaxItems == 2

-----------------------------------------------------------------------------
(* JSON values.                                                            *)

Num(x) == [num |-> x]
Str(s) == [str |-> s]
Bool(b) == [bool |-> b]
Arr(s) == [arr |-> s]
Obj(m) == [obj |-> m]

IsNum(v) == "num" \in DOMAIN v
IsStr(v) == "str" \in DOMAIN v
IsBool(v) == "bool" \in DOMAIN v
IsArr(v) == "arr" \in DOMAIN v
IsObj(v) == "obj" \in DOMAIN v

\* the empty map, and the nil map of a declared and unassigned map variable
EmptyMap == [k \in {} |-> Num(0)]
Nil == [nil |-> TRUE]

Has(m, k) == k \in DOMAIN m

\* m[k] = v on a Go map
Put(m, k, v) == [j \in DOMAIN m \cup {k} |-> IF j = k THEN v ELSE m[j]]

\* a whole number of units as a number
Whole(k) == 100 * k

\* a * b for numbers a and b, exact when a is a whole number
Times(a, b) == (a \div 100) * b

\* int(x) of Go on a float64: truncation toward zero, as a count of units
IntOf(x) == IF x >= 0 THEN x \div 100 ELSE -((-x) \div 100)

\* fmt's %.2f of a number
Fmt2(x) ==
    LET a == IF x >= 0 THEN x ELSE -x
        cents == a % 100
    IN  (IF x < 0 THEN "-" ELSE "") \o ToString(a \div 100) \o "."
            \o (IF cents < 10 THEN "0" ELSE "") \o ToString(cents)

\* fmt's %.0f of a number that is whole
Fmt0(x) == (IF x < 0 THEN "-" ELSE "") \o ToString((IF x >= 0 THEN x ELSE -x) \div 100)

\* A JSON string is Str(s), its characters given, or Doc(m), the characters
\* json.Marshal(m) writes for the map m. json.Unmarshal of the string into a
\* map succeeds on a Doc and gives m back (every number a float64, which Num
\* already is); it fails on a Str, none of the sentences below being JSON.
Doc(m) == [doc |-> m]
IsDoc(v) == "doc" \in DOMAIN v
IsString(v) == IsStr(v) \/ IsDoc(v)
Null == [null |-> TRUE]

-----------------------------------------------------------------------------
(* The tool server: cmd/server/main.go.                                    *)

defaultProducts ==
    << [ID |-> "1", Name |-> "Laptop", Price |-> Whole(1000)],
       [ID |-> "2", Name |-> "Smartphone", Price |-> Whole(500)],
       [ID |-> "3", Name |-> "Tablet", Price |-> Whole(300)] >>

\* the ceiling of a quantity, in units
MaxQuantity == 1000

\* what a handler returns: (*mcp.CallToolResult, nil) or (nil, error)
Result(isError, text) == [isError |-> isError, content |-> <<text>>]
Fault(msg) == [fault |-> msg]
IsFault(r) == "fault" \in DOMAIN r

\* the positions of defaultProducts whose ID is id, and the first of them:
\* the product a range loop with break, or return, stops at
\* every product matches every id
MatchesAll(id) == 1..Len(defaultProducts)

Matches(id) == {k \in 1..Len(defaultProducts) : defaultProducts[k].ID = id}
FirstMatch(id) == CHOOSE k \in Matches(id) : \A j \in Matches(id) : k <= j

getPriceHandler(args) ==
    IF args = Nil THEN Fault("no arguments provided")
    ELSE IF ~(Has(args, "product_id") /\ IsStr(args["product_id"]))
    THEN Fault("product_id is not a string")
    ELSE LET productID == args["product_id"].str IN
         IF Matches(productID) # {}
         THEN LET product == defaultProducts[FirstMatch(productID)] IN
              Result(FALSE, Doc(
                  [success |-> Bool(TRUE),
                   product_id |-> Str(product.ID),
                   product_name |-> Str(product.Name),
                   price |-> Num(product.Price),
                   message |-> Str("The price of " \o product.Name \o " is $"
                                     \o Fmt2(product.Price))]))
         ELSE Result(TRUE, Doc(
                  [success |-> Bool(FALSE),
                   error |-> Str("Product not found"),
                   product_id |-> Str(productID)]))

ItemOk == [ok |-> TRUE]

\* the ceiling is taken for too many as well
TooManyFrom(quantity) == quantity >= Whole(MaxQuantity)

\* line 172: quantity > 1000
TooMany(quantity) == quantity > Whole(MaxQuantity)

\* the body of the validation loop for one element of items
ValidateItem(itemInterface) ==
    IF ~IsObj(itemInterface)
    THEN Result(TRUE, Str("Invalid item format"))
    ELSE LET item == itemInterface.obj IN
    IF ~(Has(item, "product_id") /\ IsStr(item["product_id"]))
    THEN Result(TRUE, Str("Invalid product ID format"))
    ELSE IF Matches(item["product_id"].str) = {}
    THEN Result(TRUE, Str("Product with ID " \o item["product_id"].str \o " not found"))
    ELSE IF ~(Has(item, "quantity") /\ IsNum(item["quantity"]))
    THEN Result(TRUE, Str("Invalid quantity format"))
    ELSE LET quantity == item["quantity"].num IN
    IF quantity # Whole(IntOf(quantity))
    THEN Result(TRUE, Str("Quantity must be an integer"))
    ELSE IF quantity <= 0
    THEN Result(TRUE, Str("Quantity must be greater than 0"))
    ELSE IF TooMany(quantity)
    THEN Result(TRUE, Str("Quantity cannot exceed 1000"))
    ELSE ItemOk

\* the result of the last element that fails
RECURSIVE ValidateItemsFromEnd(_)
ValidateItemsFromEnd(items) ==
    IF items = <<>> THEN ItemOk
    ELSE LET r == ValidateItemsFromEnd(Tail(items)) IN
         IF r # ItemOk THEN r ELSE ValidateItem(Head(items))

\* the validation loop: the result of the first element that fails, or ItemOk
RECURSIVE ValidateItems(_)
ValidateItems(items) ==
    IF items = <<>> THEN ItemOk
    ELSE LET r == ValidateItem(Head(items)) IN
         IF r # ItemOk THEN r ELSE ValidateItems(Tail(items))

\* the second loop: itemDetails, one entry per element whose product is found
RECURSIVE ItemDetails(_)
ItemDetails(items) ==
    IF items = <<>> THEN <<>>
    ELSE LET item == Head(items).obj
             productID == item["product_id"].str
             quantity == IntOf(item["quantity"].num)
         IN  (IF Matches(productID) = {} THEN <<>>
              ELSE LET p == defaultProducts[FirstMatch(productID)] IN
                   << [product_id |-> Str(productID),
                       product_name |-> Str(p.Name),
                       price |-> Num(p.Price),
                       quantity |-> Num(Whole(quantity)),
                       item_total |-> Num(Times(Whole(quantity), p.Price))] >>)
             \o ItemDetails(Tail(items))

\* the total is that of the last element alone
TotalOfLast(details) ==
    IF details = <<>> THEN 0 ELSE details[Len(details)].item_total.num

\* total, which the second loop accumulates next to itemDetails
RECURSIVE TotalOf(_)
TotalOf(details) ==
    IF details = <<>> THEN 0
    ELSE Head(details).item_total.num + TotalOf(Tail(details))

RECURSIVE ObjAll(_)
ObjAll(details) ==
    IF details = <<>> THEN <<>> ELSE <<Obj(Head(details))>> \o ObjAll(Tail(details))

calculateTotalHandler(args) ==
    IF args = Nil THEN Fault("invalid arguments")
    ELSE IF ~Has(args, "items") THEN Fault("missing items")
    ELSE IF ~IsArr(args["items"]) THEN Fault("items is not an array")
    ELSE LET items == args["items"].arr
             bad == ValidateItems(items)
         IN  IF bad # ItemOk THEN bad
             ELSE LET itemDetails == ItemDetails(items)
                      total == TotalOf(itemDetails)
                  IN  Result(FALSE, Doc(
                          [success |-> Bool(TRUE),
                           total_price |-> Num(total),
                           items |-> IF itemDetails = <<>> THEN Null
                                     ELSE Arr(ObjAll(itemDetails)),
                           item_count |-> Num(Whole(Len(itemDetails))),
                           message |-> Str("Total price is $" \o Fmt2(total))]))

\* the percentage is taken for the fraction
PercentAsFraction(p) == p

\* discountPercentage / 100, exact when the percentage is a whole number
Percent(p) == p \div 100

\* the subtracted convention: the percentage is taken off the price
DiscountedPriceSubtracted(totalPrice, discountPercentage) ==
    totalPrice - Times(totalPrice, Percent(discountPercentage))

\* line 245: the percentage is the part of the price that is paid
DiscountedPrice(totalPrice, discountPercentage) ==
    Times(totalPrice, Percent(discountPercentage))

applyDiscountHandler(args) ==
    IF args = Nil THEN Fault("invalid arguments")
    ELSE IF ~(Has(args, "total_price") /\ IsNum(args["total_price"]))
    THEN Fault("missing total_price")
    ELSE IF ~(Has(args, "discount_percentage") /\ IsNum(args["discount_percentage"]))
    THEN Fault("missing discount_percentage")
    ELSE LET totalPrice == args["total_price"].num
             discountPercentage == args["discount_percentage"].num
             discountedPrice == DiscountedPrice(totalPrice, discountPercentage)
             originalPrice == totalPrice
             savedAmount == originalPrice - discountedPrice
         IN  Result(FALSE, Doc(
                 [success |-> Bool(TRUE),
                  original_price |-> Num(originalPrice),
                  discount_percentage |-> Num(discountPercentage),
                  discounted_price |-> Num(discountedPrice),
                  saved_amount |-> Num(savedAmount),
                  message |-> Str("Original price: $" \o Fmt2(originalPrice)
                                    \o ", After " \o Fmt0(discountPercentage)
                                    \o "% discount: $" \o Fmt2(discountedPrice)
                                    \o " (You save: $" \o Fmt2(savedAmount) \o ")")]))

helpHandler(args) ==
    Result(FALSE, Str("Available tools: get_price, calculate_total, apply_discount"))

\* the tools main registers with AddTool
ToolNames == {"help", "get_price", "calculate_total", "apply_discount"}

\* the handler AddTool bound to the name
Handler(name, args) ==
    CASE name = "help" -> helpHandler(args)
      [] name = "get_price" -> getPriceHandler(args)
      [] name = "calculate_total" -> calculateTotalHandler(args)
      [] name = "apply_discount" -> applyDiscountHandler(args)

-----------------------------------------------------------------------------
(* The handlers of server/server.go.                                       *)

legacyGetPriceHandler(args) ==
    IF args = Nil THEN Fault("no arguments provided")
    ELSE IF ~(Has(args, "product_id") /\ IsStr(args["product_id"]))
    THEN Fault("product_id is not a string")
    ELSE LET productID == args["product_id"].str IN
         IF Matches(productID) # {}
         THEN LET product == defaultProducts[FirstMatch(productID)] IN
              Result(FALSE, Str("The price of " \o product.Name \o " is $"
                                  \o Fmt2(product.Price)))
         ELSE Result(TRUE, Str("Product not found"))

\* int(quantityFloat)
LegacyQuantity(quantityFloat) == IntOf(quantityFloat)

\* the loop over items: an element that is no object, whose product_id is no
\* string or whose quantity is no number is passed over, and so is one whose
\* product is not found; the quantity is not checked
RECURSIVE LegacyTotal(_)
LegacyTotal(items) ==
    IF items = <<>> THEN 0
    ELSE LET itemInterface == Head(items) IN
         (IF /\ IsObj(itemInterface)
             /\ Has(itemInterface.obj, "product_id")
             /\ IsStr(itemInterface.obj["product_id"])
             /\ Has(itemInterface.obj, "quantity")
             /\ IsNum(itemInterface.obj["quantity"])
             /\ Matches(itemInterface.obj["product_id"].str) # {}
          THEN Times(Whole(LegacyQuantity(itemInterface.obj["quantity"].num)),
                     defaultProducts[FirstMatch(itemInterface.obj["product_id"].str)].Price)
          ELSE 0)
         + LegacyTotal(Tail(items))

legacyCalculateTotalHandler(args) ==
    IF args = Nil THEN Fault("invalid arguments")
    ELSE IF ~Has(args, "items") THEN Fault("missing items")
    ELSE IF ~IsArr(args["items"]) THEN Fault("items is not an array")
    ELSE Result(FALSE, Str("Total price is $" \o Fmt2(LegacyTotal(args["items"].arr))))

\* the percentage is the part of the price that is paid
LegacyDiscountedPriceRetained(totalPrice, discountPercentage) ==
    Times(totalPrice, Percent(discountPercentage))

\* discount := totalPrice * (discountPercentage / 100), taken off the price
LegacyDiscountedPrice(totalPrice, discountPercentage) ==
    totalPrice - Times(totalPrice, Percent(discountPercentage))

legacyApplyDiscountHandler(args) ==
    IF args = Nil THEN Fault("invalid arguments")
    ELSE IF ~(Has(args, "total_price") /\ IsNum(args["total_price"]))
    THEN Fault("missing total_price")
    ELSE IF ~(Has(args, "discount_percentage") /\ IsNum(args["discount_percentage"]))
    THEN Fault("missing discount_percentage")
    ELSE Result(FALSE, Str("Discounted price is $"
            \o Fmt2(LegacyDiscountedPrice(args["total_price"].num,
                                          args["discount_percentage"].num))))

\* the tools the main of server/server.go registers; it registers no help,
\* a call of which the runtime answers with an error
LegacyHandler(name, args) ==
    CASE name = "get_price" -> legacyGetPriceHandler(args)
      [] name = "calculate_total" -> legacyCalculateTotalHandler(args)
      [] name = "apply_discount" -> legacyApplyDiscountHandler(args)
      [] OTHER -> Fault("tool not found")

-----------------------------------------------------------------------------
(* The server's runtime: main hands the registered tools to mcp-go's       *)
(* ServeStdio, which reads one request line, writes one response line.     *)

serverInfo == [name |-> Str("Product Price Server"), version |-> Str("1.0.0")]

\* the descriptors main builds with mcp.NewTool, in the order tools/list gives
ToolDescriptors ==
    << Obj([name |-> Str("apply_discount"),
            description |-> Str("Apply a discount to the total price."),
            inputSchema |-> Obj([type |-> Str("object")])]),
       Obj([name |-> Str("calculate_total"),
            description |-> Str("Calculate the total price for multiple items."),
            inputSchema |-> Obj([type |-> Str("object")])]),
       Obj([name |-> Str("get_price"),
            description |-> Str("Get the price of a product by its ID."),
            inputSchema |-> Obj([type |-> Str("object")])]),
       Obj([name |-> Str("help"),
            description |-> Str("Show all supported operations and examples"),
            inputSchema |-> Obj([type |-> Str("object")])]) >>

\* a response line with a result, and one with an error: each line is the
\* JSON text of one envelope
ResultLine(id, result) ==
    Doc([jsonrpc |-> Str("2.0"), id |-> Num(Whole(id)), result |-> Obj(result)])
ErrorLine(id, code, msg) ==
    Doc([jsonrpc |-> Str("2.0"), id |-> Num(Whole(id)),
         error |-> Obj([code |-> Num(Whole(code)), message |-> Str(msg)])])

\* a CallToolResult on the wire: isError is written only when it is true
CallResultJSON(r) ==
    LET content == [content |-> Arr(<<Obj([type |-> Str("text"),
                                            text |-> r.content[1]])>>)]
    IN  IF r.isError THEN Put(content, "isError", Bool(TRUE)) ELSE content

\* the response line to one request line: a handler's error becomes a JSON-RPC
\* error envelope, its CallToolResult the result of the envelope
Dispatch(req) ==
    CASE req.method = "initialize" ->
            ResultLine(req.id, [protocolVersion |-> Str("2024-11-05"),
                                capabilities |-> Obj([tools |-> Obj(EmptyMap)]),
                                serverInfo |-> Obj(serverInfo)])
      [] req.method = "tools/list" ->
            ResultLine(req.id, [tools |-> Arr(ToolDescriptors)])
      [] req.method = "tools/call" ->
            LET r == Handler(req.params.name, req.params.arguments) IN
            IF IsFault(r) THEN ErrorLine(req.id, -32603, r.fault)
            ELSE ResultLine(req.id, CallResultJSON(r))

-----------------------------------------------------------------------------
(* The client: cmd/client/main.go.                                         *)

initRequest ==
    [jsonrpc |-> "2.0", id |-> 1, method |-> "initialize",
     params |-> [protocolVersion |-> "2024-11-05",
                 capabilities |-> EmptyMap,
                 clientInfo |-> [name |-> "interactive-client", version |-> "1.0.0"]]]

listToolsRequest == [jsonrpc |-> "2.0", id |-> 2, method |-> "tools/list"]

toolRequest(name, arguments) ==
    [jsonrpc |-> "2.0", id |-> 3, method |-> "tools/call",
     params |-> [name |-> name, arguments |-> arguments]]

NoRequest == [jsonrpc |-> "2.0", id |-> 0, method |-> "none"]

\* the first element of contentArray that is an object with a string text
RECURSIVE FirstText(_)
FirstText(contentArray) ==
    IF contentArray = <<>> THEN Null
    ELSE LET content == Head(contentArray) IN
         IF IsObj(content) /\ Has(content.obj, "text") /\ IsString(content.obj["text"])
         THEN content.obj["text"]
         ELSE FirstText(Tail(contentArray))

extractContentFromResponse(response) ==
    IF ~IsDoc(response) THEN response
    ELSE LET result == response.doc IN
         IF Has(result, "result") /\ IsObj(result["result"])
            /\ Has(result["result"].obj, "content")
            /\ IsArr(result["result"].obj["content"])
            /\ FirstText(result["result"].obj["content"].arr) # Null
         THEN FirstText(result["result"].obj["content"].arr)
         ELSE response

\* parseStructuredResponse returns a nil error on every path
parseStructuredResponse(response) ==
    LET content == extractContentFromResponse(response) IN
    IF ~IsDoc(content)
    THEN [success |-> Bool(TRUE), message |-> content]
    ELSE content.doc

\* the map of the turn before is kept
ChainStateKept(old) == old

\* lastStructuredResult of a turn that starts: the var declaration of line 348
ChainStateAtTurnStart(old) == Nil

\* the total is put in only where the translator gave none
PropagateIfAbsent(name, arguments, held) ==
    IF name = "apply_discount" /\ held # Nil
       /\ Has(held, "total_price") /\ IsNum(held["total_price"])
       /\ ~Has(arguments, "total_price")
    THEN Put(arguments, "total_price", Num(held["total_price"].num))
    ELSE arguments

\* the arguments are replaced by the total alone
PropagateAlone(name, arguments, held) ==
    IF name = "apply_discount" /\ held # Nil
       /\ Has(held, "total_price") /\ IsNum(held["total_price"])
    THEN [total_price |-> Num(held["total_price"].num)]
    ELSE arguments

\* main, lines 357-365: the arguments CallTool is given
Propagate(name, arguments, held) ==
    IF name = "apply_discount" /\ held # Nil
       /\ Has(held, "total_price") /\ IsNum(held["total_price"])
    THEN Put(arguments, "total_price", Num(held["total_price"].num))
    ELSE arguments

\* whether lines 357-365 print the notice of the propagation
Propagates(name, held) ==
    name = "apply_discount" /\ held # Nil
    /\ Has(held, "total_price") /\ IsNum(held["total_price"])

-----------------------------------------------------------------------------
(* What the translator can return for a turn. The arguments of a tool call *)
(* are a string: the JSON text of an object, or text that does not parse.  *)

SeqsUpTo(S, k) == UNION {[1..m -> S] : m \in 0..k}

Merge(a, b) == [j \in DOMAIN a \cup DOMAIN b |-> IF j \in DOMAIN b THEN b[j] ELSE a[j]]

\* the maps with the key k absent, or present with a value of V
Opt(k, V) == {EmptyMap} \cup {Put(EmptyMap, k, v) : v \in V}

Item(id, q) == Obj([product_id |-> Str(id), quantity |-> Num(q)])

\* the items of a turn's calculate_total: valid ones, to lists of MaxItems, and
\* one list whose quantity 2.5 the handler rejects
TurnItems == {Item("1", Whole(5)), Item("2", Whole(30))}
TurnItemLists == SeqsUpTo(TurnItems, MaxItems) \cup {<<Item("2", 250)>>}

TurnArguments(name) ==
    CASE name = "help" -> {EmptyMap}
      [] name = "get_price" -> Opt("product_id", {Str("1"), Str("9")})
      [] name = "calculate_total" ->
            Opt("items", {Arr(q) : q \in TurnItemLists})
      [] name = "apply_discount" ->
            {Merge(a, b) : a \in Opt("total_price", {Num(Whole(2000))}),
                           b \in Opt("discount_percentage",
                                     {Num(Whole(30)), Num(Whole(80))})}

ToolCallInputs ==
    UNION {{[Name |-> nm, Arguments |-> Doc(a)] : a \in TurnArguments(nm)} :
           nm \in ToolNames}
    \cup {[Name |-> nm, Arguments |-> Str("{")] : nm \in {"calculate_total", "apply_discount"}}

NoCall == [Name |-> "", Arguments |-> Str("")]

-----------------------------------------------------------------------------
(* The state after nothing has run, and the steps of the client.           *)

NoLog == [method |-> "none", for |-> 0, wrote |-> 0, read |-> 0,
          status |-> "none", line |-> Null]
NoHeld == [idx |-> 0, call |-> NoCall]
NotSpawned == [StdinPipe |-> FALSE, StdoutPipe |-> FALSE, Start |-> FALSE,
               failed |-> "none", returned |-> "none"]
NotPolished == [calls |-> 0, failed |-> FALSE, handed |-> Null, shown |-> Null]
NoHandlerCall == [name |-> "", arguments |-> Nil]
NoReturn == [none |-> TRUE]

Init ==
    /\ pc = "NewMCPServer"
    /\ child = "none"
    /\ stdinClosed = FALSE
    /\ toChild = <<>>
    /\ fromChild = <<>>
    /\ n = 0
    /\ i = 1
    /\ toolCall = NoCall
    /\ lastStructuredResult = Nil
    /\ lastResult = Str("")
    /\ request = NoRequest
    /\ callLog = NoLog
    /\ heldFrom = NoHeld
    /\ attempted = <<>>
    /\ dispatched = <<>>
    /\ stepOut = <<>>
    /\ earlierTotal = FALSE
    /\ surfaced = Null
    /\ spawned = NotSpawned
    /\ released = <<>>
    /\ tools = <<>>
    /\ polish = NotPolished
    /\ hcall = NoHandlerCall
    /\ hret = NoReturn
    /\ legacyRet = NoReturn

turnVars == <<n, i, toolCall, lastStructuredResult, lastResult, heldFrom,
              attempted, dispatched, stepOut, earlierTotal, surfaced>>
pipeVars == <<child, stdinClosed, toChild, fromChild>>
handlerVars == <<hcall, hret, legacyRet>>

\* fmt.Fprintf(s.stdin, ...) succeeds while the child holds the read end
CanWrite == child = "running" /\ ~stdinClosed

\* s.scanner.Scan() returns true with a line, false at the end of the stream,
\* and blocks otherwise
CanScan == fromChild # <<>>

\* a Scan that never sees the end of the stream
ScanWaitsOn == FALSE

ScanEnds == fromChild = <<>> /\ child = "exited"

\* the lines left to read after a Scan that returned true
ConsumeNothing(lines) == lines
Consume(lines) == Tail(lines)

\* the three calls of NewMCPServer that can fail, in their order
SpawnSteps == {"StdinPipe", "StdoutPipe", "Start"}

\* the MCPServer that was built so far is returned with the error of Start
ReturnedBuiltOnFailure(step) == IF step = "Start" THEN "server" ELSE "nil"

\* what NewMCPServer returns beside the error when a call fails
ReturnedOnFailure(step) == "nil"

\* NewMCPServer, and main's return when it fails: the calls that
\* succeeded, the one that failed, and what is returned
NewMCPServer ==
    /\ pc = "NewMCPServer"
    /\ \E failsAt \in SpawnSteps \cup {"none"} :
          /\ spawned' = [StdinPipe |-> failsAt # "StdinPipe",
                          StdoutPipe |-> failsAt \notin {"StdinPipe", "StdoutPipe"},
                          Start |-> failsAt = "none",
                          failed |-> failsAt,
                          returned |-> IF failsAt = "none" THEN "server"
                                       ELSE ReturnedOnFailure(failsAt)]
          /\ IF failsAt = "none"
             THEN child' = "running" /\ pc' = "Initialize"
             ELSE child' = child /\ pc' = "Exited"
    /\ UNCHANGED <<stdinClosed, toChild, fromChild, request, callLog>>
    /\ UNCHANGED turnVars /\ UNCHANGED handlerVars /\ UNCHANGED <<released, tools, polish>>

\* Initialize up to the write of its request line
InitializeWrite ==
    /\ pc = "Initialize"
    /\ request' = initRequest
    /\ IF CanWrite
       THEN /\ toChild' = Append(toChild, initRequest)
            /\ callLog' = [NoLog EXCEPT !.method = "initialize", !.wrote = 1,
                                        !.status = "pending"]
            /\ pc' = "InitializeScan"
       ELSE /\ toChild' = toChild
            /\ callLog' = [NoLog EXCEPT !.method = "initialize", !.status = "error"]
            /\ pc' = "Close"
    /\ UNCHANGED <<child, stdinClosed, fromChild>>
    /\ UNCHANGED turnVars /\ UNCHANGED handlerVars /\ UNCHANGED <<spawned, released, tools, polish>>

\* Initialize asks for a result that names the server
InitializeOkWithIdentity(responseText) ==
    /\ IsDoc(responseText)
    /\ Has(responseText.doc, "result") /\ IsObj(responseText.doc["result"])
    /\ Has(responseText.doc["result"].obj, "serverInfo")

\* lines 84-95: Initialize succeeds with any line that parses into a map; the
\* serverInfo of its result is printed when there is one
InitializeOk(responseText) == IsDoc(responseText)

\* Initialize from its Scan on: any line that parses is accepted
InitializeScan ==
    /\ pc = "InitializeScan"
    /\ \/ /\ CanScan
          /\ fromChild' = Consume(fromChild)
          /\ LET responseText == Head(fromChild) IN
             IF InitializeOk(responseText)
             THEN /\ callLog' = [callLog EXCEPT !.read = 1, !.status = "ok",
                                                !.line = responseText]
                  /\ pc' = "ListTools"
             ELSE /\ callLog' = [callLog EXCEPT !.read = 1, !.status = "error",
                                                !.line = responseText]
                  /\ pc' = "Close"
       \/ /\ ScanEnds
          /\ fromChild' = fromChild
          /\ callLog' = [callLog EXCEPT !.status = "error"]
          /\ pc' = "Close"
    /\ UNCHANGED <<child, stdinClosed, toChild, request>>
    /\ UNCHANGED turnVars /\ UNCHANGED handlerVars /\ UNCHANGED <<spawned, released, tools, polish>>

\* ListTools up to the write of its request line
ListToolsWrite ==
    /\ pc = "ListTools"
    /\ request' = listToolsRequest
    /\ IF CanWrite
       THEN /\ toChild' = Append(toChild, listToolsRequest)
            /\ callLog' = [NoLog EXCEPT !.method = "tools/list", !.wrote = 1,
                                        !.status = "pending"]
            /\ pc' = "ListToolsScan"
       ELSE /\ toChild' = toChild
            /\ callLog' = [NoLog EXCEPT !.method = "tools/list", !.status = "error"]
            /\ pc' = "Close"
    /\ UNCHANGED <<child, stdinClosed, fromChild>>
    /\ UNCHANGED turnVars /\ UNCHANGED handlerVars /\ UNCHANGED <<spawned, released, tools, polish>>

\* whether ListTools finds result.tools to be an array in the line
ToolsFormatOk(responseText) ==
    /\ IsDoc(responseText)
    /\ Has(responseText.doc, "result") /\ IsObj(responseText.doc["result"])
    /\ Has(responseText.doc["result"].obj, "tools")
    /\ IsArr(responseText.doc["result"].obj["tools"])

\* the string at key k of a descriptor, "" when absent or no string
StringAt(toolMap, k) ==
    IF Has(toolMap, k) /\ IsStr(toolMap[k]) THEN toolMap[k].str ELSE ""

\* the object at key k of a descriptor, the nil map when absent or no object
ObjectAt(toolMap, k) ==
    IF Has(toolMap, k) /\ IsObj(toolMap[k]) THEN toolMap[k] ELSE Nil

\* lines 144-151: the openai.Tool made of one descriptor
OpenAITool(toolMap) ==
    [Type |-> "function",
     Name |-> StringAt(toolMap, "name"),
     Description |-> StringAt(toolMap, "description"),
     Parameters |-> ObjectAt(toolMap, "inputSchema")]

\* the list built with each tool put before the ones already made
RECURSIVE OpenAIToolsPrepended(_)
OpenAIToolsPrepended(ts) ==
    IF ts = <<>> THEN <<>>
    ELSE IF ~IsObj(Head(ts)) THEN OpenAIToolsPrepended(Tail(ts))
    ELSE Append(OpenAIToolsPrepended(Tail(ts)), OpenAITool(Head(ts).obj))

\* the loop of lines 135-154: elements that are no objects are passed over
RECURSIVE OpenAITools(_)
OpenAITools(ts) ==
    IF ts = <<>> THEN <<>>
    ELSE IF ~IsObj(Head(ts)) THEN OpenAITools(Tail(ts))
    ELSE <<OpenAITool(Head(ts).obj)>> \o OpenAITools(Tail(ts))

\* ListTools from its Scan on
ListToolsScan ==
    /\ pc = "ListToolsScan"
    /\ \/ /\ CanScan
          /\ fromChild' = Consume(fromChild)
          /\ LET responseText == Head(fromChild) IN
             IF ToolsFormatOk(responseText)
             THEN /\ callLog' = [callLog EXCEPT !.read = 1, !.status = "ok",
                                                !.line = responseText]
                  /\ tools' = OpenAITools(responseText.doc["result"].obj["tools"].arr)
                  /\ pc' = "CheckKey"
             ELSE /\ callLog' = [callLog EXCEPT !.read = 1, !.status = "error",
                                                !.line = responseText]
                  /\ tools' = tools
                  /\ pc' = "Close"
       \/ /\ ScanEnds
          /\ fromChild' = fromChild
          /\ callLog' = [callLog EXCEPT !.status = "error"]
          /\ tools' = tools
          /\ pc' = "Close"
    /\ UNCHANGED <<child, stdinClosed, toChild, request>>
    /\ UNCHANGED turnVars /\ UNCHANGED handlerVars /\ UNCHANGED <<spawned, released, polish>>

\* the check of OPENAI_API_KEY
CheckKey ==
    /\ pc = "CheckKey"
    /\ \E apiKeySet \in BOOLEAN : pc' = IF apiKeySet THEN "Prompt" ELSE "Close"
    /\ UNCHANGED <<request, callLog>>
    /\ UNCHANGED pipeVars /\ UNCHANGED turnVars /\ UNCHANGED handlerVars /\ UNCHANGED <<spawned, released, tools, polish>>

\* the top of the conversation loop: the user's line, with which the turn
\* before is over
Prompt ==
    /\ pc = "Prompt"
    /\ \E exit \in BOOLEAN : pc' = IF exit THEN "Close" ELSE "Translate"
    /\ polish' = NotPolished
    /\ UNCHANGED <<request, callLog>>
    /\ UNCHANGED pipeVars /\ UNCHANGED turnVars /\ UNCHANGED handlerVars /\ UNCHANGED <<spawned, released, tools>>

\* CreateChatCompletion of the user's line: an API error, a plain reply, or
\* tool calls, with which the turn's two variables are declared anew
Translate ==
    /\ pc = "Translate"
    /\ \/ /\ pc' = "Prompt"
          /\ UNCHANGED turnVars
       \/ /\ n' \in 0..MaxCalls
          /\ i' = 1
          /\ lastResult' = Str("")
          /\ lastStructuredResult' = ChainStateAtTurnStart(lastStructuredResult)
          /\ toolCall' = NoCall
          /\ heldFrom' = NoHeld
          /\ attempted' = <<>>
          /\ dispatched' = <<>>
          /\ stepOut' = <<>>
          /\ earlierTotal' = (earlierTotal \/ (lastStructuredResult # Nil
                                 /\ Has(lastStructuredResult, "total_price")))
          /\ surfaced' = Null
          /\ pc' = "Loop"
    /\ UNCHANGED <<request, callLog>>
    /\ UNCHANGED pipeVars /\ UNCHANGED handlerVars /\ UNCHANGED <<spawned, released, tools, polish>>

\* what lines 384-393 do with the decoded result: the prints, or the panic
\* of a type assertion on a message that is no string, a success that is no bool
ShowsPanic(structuredResult) ==
    \/ Has(structuredResult, "message") /\ ~IsString(structuredResult["message"])
    \/ Has(structuredResult, "success") /\ ~IsBool(structuredResult["success"])

Shown(structuredResult) ==
    (IF Has(structuredResult, "message") THEN <<"message">> ELSE <<>>)
    \o (IF Has(structuredResult, "success") /\ structuredResult["success"] = Bool(TRUE)
        THEN <<"structured data">> ELSE <<>>)

\* the index the loop goes to after the body ran for index k
NextIndex(k) == k + 1

\* the loop is left at the first step that fails; the failed step is run again
Break(k, len) == len + 1
Retry(k, len) == k

\* the index the loop goes to after a continue in the body for index k
Continue(k, len) == k + 1

\* one pass of the loop body up to CallTool's write: the arguments are parsed,
\* the total of the held result is put in, the request line is written
LoopBodyOver(toolCalls) ==
    /\ pc = "Loop"
    /\ i <= n
    /\ \E tc \in toolCalls :
          /\ toolCall' = tc
          /\ attempted' = Append(attempted, i)
          /\ IF ~IsDoc(tc.Arguments)
             THEN /\ stepOut' = <<"Error parsing arguments">>
                  /\ i' = Continue(i, n)
                  /\ pc' = "Loop"
                  /\ UNCHANGED <<request, callLog, toChild, dispatched>>
             ELSE LET arguments == Propagate(tc.Name, tc.Arguments.doc,
                                             lastStructuredResult)
                      notice == IF Propagates(tc.Name, lastStructuredResult)
                                THEN <<"previous total used">> ELSE <<>>
                  IN  /\ request' = toolRequest(tc.Name, arguments)
                      /\ IF CanWrite
                         THEN /\ toChild' = Append(toChild, request')
                              /\ callLog' = [NoLog EXCEPT !.method = "tools/call",
                                                 !.for = i, !.wrote = 1,
                                                 !.status = "pending"]
                              /\ dispatched' = Append(dispatched, i)
                              /\ stepOut' = notice
                              /\ i' = i
                              /\ pc' = "CallToolScan"
                         ELSE /\ toChild' = toChild
                              /\ callLog' = [NoLog EXCEPT !.method = "tools/call",
                                                 !.for = i, !.status = "error"]
                              /\ dispatched' = dispatched
                              /\ stepOut' = notice \o <<"Error calling tool">>
                              /\ i' = Continue(i, n)
                              /\ pc' = "Loop"
    /\ UNCHANGED <<child, stdinClosed, fromChild, n, lastStructuredResult,
                   lastResult, heldFrom, earlierTotal, surfaced>>
    /\ UNCHANGED handlerVars /\ UNCHANGED <<spawned, released, tools, polish>>

LoopBody == LoopBodyOver(ToolCallInputs)

\* the fields of the reply are added to the map that was held
StoreMerged(old, structuredResult) ==
    IF old = Nil THEN structuredResult ELSE Merge(old, structuredResult)

\* the map the loop keeps after it decoded a reply into structuredResult
Store(old, structuredResult) == structuredResult

\* CallTool looks into the line and returns an error for one that carries a
\* JSON-RPC error or an isError result
CallToolReturnDecoded(line) ==
    IF IsDoc(line)
       /\ (Has(line.doc, "error")
           \/ (Has(line.doc, "result") /\ IsObj(line.doc["result"])
               /\ Has(line.doc["result"].obj, "isError")))
    THEN [response |-> Str(""), err |-> TRUE]
    ELSE [response |-> line, err |-> FALSE]

\* lines 176-178: what CallTool returns when Scan has read a line
CallToolReturn(line) == [response |-> line, err |-> FALSE]

\* the rest of the loop body: CallTool's Scan, the decoding of the line, the
\* store of the result, the prints
CallToolScan ==
    /\ pc = "CallToolScan"
    /\ \/ /\ CanScan
          /\ fromChild' = Consume(fromChild)
          /\ LET returned == CallToolReturn(Head(fromChild))
                 response == returned.response
                 structuredResult == parseStructuredResponse(response)
             IN  IF returned.err
                 THEN /\ callLog' = [callLog EXCEPT !.read = 1, !.status = "error",
                                                    !.line = response]
                      /\ stepOut' = stepOut \o <<"Error calling tool">>
                      /\ i' = Continue(i, n)
                      /\ pc' = "Loop"
                      /\ UNCHANGED <<lastStructuredResult, lastResult, heldFrom>>
                 ELSE
                 /\ callLog' = [callLog EXCEPT !.read = 1, !.status = "ok",
                                               !.line = response]
                 /\ lastStructuredResult' = Store(lastStructuredResult, structuredResult)
                 /\ heldFrom' = [idx |-> i, call |-> toolCall]
                 /\ IF ShowsPanic(structuredResult)
                    THEN /\ stepOut' = stepOut \o <<"panic">>
                         /\ lastResult' = lastResult
                         /\ i' = i
                         /\ pc' = "Close"
                    ELSE /\ stepOut' = stepOut \o Shown(structuredResult)
                         /\ lastResult' = IF Has(structuredResult, "message")
                                          THEN structuredResult["message"]
                                          ELSE lastResult
                         /\ i' = NextIndex(i)
                         /\ pc' = "Loop"
       \/ /\ ScanEnds
          /\ fromChild' = fromChild
          /\ callLog' = [callLog EXCEPT !.status = "error"]
          /\ stepOut' = stepOut \o <<"Error calling tool">>
          /\ i' = Continue(i, n)
          /\ pc' = "Loop"
          /\ UNCHANGED <<lastStructuredResult, lastResult, heldFrom>>
    /\ UNCHANGED <<child, stdinClosed, toChild, request, n, toolCall,
                   attempted, dispatched, earlierTotal>>
    /\ surfaced' = IF pc' = "Loop" /\ callLog'.status = "ok"
                      /\ Has(parseStructuredResponse(callLog'.line), "message")
                   THEN parseStructuredResponse(callLog'.line)["message"]
                   ELSE surfaced
    /\ UNCHANGED handlerVars /\ UNCHANGED <<spawned, released, tools, polish>>

\* the reply of the second CreateChatCompletion to the text it is handed
Rewritten(text) == [rewritten |-> text]

\* lines 417-421: what is printed after the second CreateChatCompletion
PolishShown(err, text) ==
    IF err THEN Str("Error polishing response") ELSE Rewritten(text)

\* the range loop is over: the second CreateChatCompletion, whose reply or
\* whose error is printed
Polish ==
    /\ pc = "Loop"
    /\ i > n
    /\ \E err \in BOOLEAN :
          polish' = [calls |-> polish.calls + 1,
                     failed |-> err,
                     handed |-> lastResult,
                     shown |-> PolishShown(err, lastResult)]
    /\ pc' = "Prompt"
    /\ UNCHANGED <<request, callLog>>
    /\ UNCHANGED pipeVars /\ UNCHANGED turnVars /\ UNCHANGED handlerVars /\ UNCHANGED <<spawned, released, tools>>

\* the deferred server.Close() up to its return or its call of Wait: the
\* descriptor of stdin is given up whether s.stdin.Close() returns an error or
\* not; with an error Close returns at once, and main with it
Close ==
    /\ pc = "Close"
    /\ stdinClosed' = TRUE
    /\ \E closeFails \in BOOLEAN :
          IF closeFails
          THEN /\ released' = Append(released, "close failed")
               /\ pc' = "Exited"
          ELSE /\ released' = Append(released, "close")
               /\ pc' = "Wait"
    /\ UNCHANGED <<child, toChild, fromChild, request, callLog, spawned, tools, polish>>
    /\ UNCHANGED turnVars /\ UNCHANGED handlerVars

\* s.cmd.Wait() returns when the child has exited, and main is over
Wait ==
    /\ pc = "Wait"
    /\ child = "exited"
    /\ pc' = "Exited"
    /\ released' = Append(released, "wait")
    /\ UNCHANGED <<request, callLog, spawned, tools, polish>>
    /\ UNCHANGED pipeVars /\ UNCHANGED turnVars /\ UNCHANGED handlerVars

-----------------------------------------------------------------------------
(* The steps of the child process.                                         *)

\* ServeStdio reads one request line and writes the response line to it
ServerServe ==
    /\ child = "running"
    /\ toChild # <<>>
    /\ fromChild' = Append(fromChild, Dispatch(Head(toChild)))
    /\ toChild' = Tail(toChild)
    /\ UNCHANGED <<pc, child, stdinClosed, request, callLog>>
    /\ UNCHANGED turnVars /\ UNCHANGED handlerVars /\ UNCHANGED <<spawned, released, tools, polish>>

\* the child reads on until it is sent a request to shut down
EndOfInputOnRequest == stdinClosed /\ toChild = <<>> /\ request.method = "shutdown"

\* the reader of ServeStdio is at the end of its input: the client has closed
\* its end and every line written has been read
EndOfInput == stdinClosed /\ toChild = <<>>

\* ServeStdio returns at the end of its input, and so does main
ServerEOF ==
    /\ child = "running"
    /\ EndOfInput
    /\ child' = "exited"
    /\ UNCHANGED <<pc, stdinClosed, toChild, fromChild, request, callLog>>
    /\ UNCHANGED turnVars /\ UNCHANGED handlerVars /\ UNCHANGED <<spawned, released, tools, polish>>

\* SIGINT or SIGTERM: the goroutine of lines 371-374 calls os.Exit(0); the
\* lines the child had not read are lost with it
ServerSignal ==
    /\ child = "running"
    /\ child' = "exited"
    /\ toChild' = <<>>
    /\ UNCHANGED <<pc, stdinClosed, fromChild, request, callLog>>
    /\ UNCHANGED turnVars /\ UNCHANGED handlerVars /\ UNCHANGED <<spawned, released, tools, polish>>

Next ==
    \/ NewMCPServer
    \/ InitializeWrite
    \/ InitializeScan
    \/ ListToolsWrite
    \/ ListToolsScan
    \/ CheckKey
    \/ Prompt
    \/ Translate
    \/ LoopBody
    \/ CallToolScan
    \/ Polish
    \/ Close
    \/ Wait
    \/ ServerServe
    \/ ServerEOF
    \/ ServerSignal

Spec == Init /\ [][Next]_vars

-----------------------------------------------------------------------------
(* The client under signals.                                               *)

\* SIGINT or SIGTERM to the client: main installs no handler, so the process
\* ends at once and no deferred call runs; its descriptors are closed with it
ClientSignal ==
    /\ pc \notin {"NewMCPServer", "Exited"}
    /\ pc' = "Exited"
    /\ stdinClosed' = TRUE
    /\ UNCHANGED <<child, toChild, fromChild, request, callLog>>
    /\ UNCHANGED turnVars /\ UNCHANGED handlerVars /\ UNCHANGED <<spawned, released, tools, polish>>

LifecycleNext ==
    \/ NewMCPServer
    \/ InitializeWrite
    \/ InitializeScan
    \/ ListToolsWrite
    \/ ListToolsScan
    \/ CheckKey
    \/ Prompt
    \/ Translate
    \/ LoopBody
    \/ CallToolScan
    \/ Polish
    \/ Close
    \/ Wait
    \/ ClientSignal
    \/ ServerServe
    \/ ServerEOF
    \/ ServerSignal

LifecycleSpec == Init /\ [][LifecycleNext]_vars

-----------------------------------------------------------------------------
(* The client before a child that answers with any line.                   *)

\* lines no handler of this server answers with: a line cut short, a text
\* whose message is a number, a text whose success is a string
OddLines ==
    {Str("{\"jsonrpc\":\"2.0\",\"id\":3,\"res"),
     ResultLine(3, CallResultJSON(Result(FALSE,
         Doc([success |-> Bool(TRUE), message |-> Num(Whole(5))])))),
     ResultLine(3, CallResultJSON(Result(FALSE,
         Doc([success |-> Str("yes"), message |-> Str("done")]))))}

\* replies to tools/list that this server does not give: a list with an
\* element that is no object and a descriptor with a name only, a tools field
\* that is no array, a result that is no object, and a JSON-RPC error
OddToolLists ==
    {ResultLine(2, [tools |-> Arr(<<Str("get_price"), ToolDescriptors[4],
                                    Obj([name |-> Str("get_price")])>>)]),
     ResultLine(2, [tools |-> Obj(EmptyMap)]),
     Doc([jsonrpc |-> Str("2.0"), id |-> Num(Whole(2)), result |-> Str("none")]),
     ErrorLine(2, -32601, "Method not found")}

\* the lines the child may answer a request with, besides the server's
OddAnswers(req) ==
    IF req.method = "tools/list" THEN OddLines \cup OddToolLists ELSE OddLines

\* the invocations of a turn before such a child
WireToolCalls ==
    {[Name |-> "help", Arguments |-> Doc(EmptyMap)],
     [Name |-> "get_price", Arguments |-> Doc(Put(EmptyMap, "product_id", Str("1")))],
     [Name |-> "get_price", Arguments |-> Doc(Put(EmptyMap, "product_id", Str("9")))],
     [Name |-> "get_price", Arguments |-> Doc(EmptyMap)]}

WireLoopBody == LoopBodyOver(WireToolCalls)

\* the child reads one request line and writes one line: the server's
\* response to it, or one of the odd lines
ChildAnswers ==
    /\ child = "running"
    /\ toChild # <<>>
    /\ \E line \in {Dispatch(Head(toChild))} \cup OddAnswers(Head(toChild)) :
          fromChild' = Append(fromChild, line)
    /\ toChild' = Tail(toChild)
    /\ UNCHANGED <<pc, child, stdinClosed, request, callLog>>
    /\ UNCHANGED turnVars /\ UNCHANGED handlerVars /\ UNCHANGED <<spawned, released, tools, polish>>

WireNext ==
    \/ NewMCPServer
    \/ InitializeWrite
    \/ InitializeScan
    \/ ListToolsWrite
    \/ ListToolsScan
    \/ CheckKey
    \/ Prompt
    \/ Translate
    \/ WireLoopBody
    \/ CallToolScan
    \/ Polish
    \/ Close
    \/ Wait
    \/ ChildAnswers
    \/ ServerEOF
    \/ ServerSignal

WireSpec == Init /\ [][WireNext]_vars

-----------------------------------------------------------------------------
(* The client and the server, each taking the steps it can take.           *)

FairNext ==
    \/ NewMCPServer
    \/ InitializeWrite
    \/ InitializeScan
    \/ ListToolsWrite
    \/ ListToolsScan
    \/ CheckKey
    \/ Prompt
    \/ Translate
    \/ WireLoopBody
    \/ CallToolScan
    \/ Polish
    \/ Close
    \/ Wait
    \/ ServerServe
    \/ ServerEOF
    \/ ServerSignal

\* a process that can take a step takes it: the client returns from a Scan
\* that has a line or the end of the stream, goes through Close and returns
\* from Wait once the child has exited; the server answers a line it can
\* read and returns at the end of its input. The user's line, the replies of
\* the translator and signals are not owed.
Fairness ==
    /\ WF_vars(InitializeScan) /\ WF_vars(ListToolsScan) /\ WF_vars(CallToolScan)
    /\ WF_vars(Close) /\ WF_vars(Wait)
    /\ WF_vars(ServerServe) /\ WF_vars(ServerEOF)

FairSpec == Init /\ [][FairNext]_vars /\ Fairness

-----------------------------------------------------------------------------
(* The handlers on their own: each is applied to arguments of every shape  *)
(* the code tells apart.                                                   *)

HandlerQuantities ==
    {Num(Whole(1)), Num(Whole(MaxQuantity)), Num(Whole(MaxQuantity + 1)),
     Num(0), Num(Whole(-1)), Num(250), Num(-250), Str("5")}

HandlerIds == {Str("1"), Str("2"), Str("3"), Str("9")}

\* the elements of an items array: objects with or without each of the two
\* keys, an id that is a number, an element that is no object
HandlerItems ==
    {Obj(Merge(a, b)) : a \in Opt("product_id", HandlerIds),
                        b \in Opt("quantity", HandlerQuantities)}
    \cup {Obj([product_id |-> Num(Whole(1)), quantity |-> Num(Whole(1))]), Str("1")}

HandlerArguments(name) ==
    CASE name = "help" -> {Nil, EmptyMap}
      [] name = "get_price" ->
            {Nil} \cup Opt("product_id", {Str("1"), Str("2"), Str("3"), Str("9"),
                                          Str(""), Num(Whole(1))})
      [] name = "calculate_total" ->
            {Nil} \cup Opt("items", {Str("1")}
                                    \cup {Arr(q) : q \in SeqsUpTo(HandlerItems, MaxItems)})
      [] name = "apply_discount" ->
            {Nil} \cup
            {Merge(a, b) :
                a \in Opt("total_price", {Num(Whole(2000)), Num(Whole(20000)), Num(0),
                                          Num(Whole(-500)), Str("2000")}),
                b \in Opt("discount_percentage",
                          {Num(Whole(80)), Num(Whole(30)), Num(Whole(50)), Num(0),
                           Num(Whole(100)), Num(Whole(150)), Num(Whole(-10)),
                           Str("80")})}

HandlerInit ==
    /\ Init

\* one request is handed to the handler registered under its name
CallHandler(name) ==
    /\ hcall = NoHandlerCall
    /\ \E args \in HandlerArguments(name) :
          /\ hcall' = [name |-> name, arguments |-> args]
          /\ hret' = Handler(name, args)
          /\ legacyRet' = LegacyHandler(name, args)
    /\ UNCHANGED clientVars

CallGetPrice == CallHandler("get_price")
CallCalculateTotal == CallHandler("calculate_total")
CallApplyDiscount == CallHandler("apply_discount")
CallHelp == CallHandler("help")

HandlerNext ==
    \/ CallGetPrice
    \/ CallCalculateTotal
    \/ CallApplyDiscount
    \/ CallHelp

HandlerSpec == HandlerInit /\ [][HandlerNext]_vars

-----------------------------------------------------------------------------
(* Properties of the orchestration, checked under Spec.                    *)

\* the held result has a numeric total_price
HoldsTotal == /\ lastStructuredResult # Nil
              /\ Has(lastStructuredResult, "total_price")
              /\ IsNum(lastStructuredResult["total_price"])

\* a tools/call request line is on its way to the child
OnTheWire == pc = "CallToolScan" /\ toChild # <<>>

\* the arguments of the request line the child has not read yet
SentArguments == Head(toChild).params.arguments

\* C1: whenever the request line of an apply_discount invocation is written
\* while the held result of the turn has a numeric total_price, the
\* total_price in the line is the held one, whatever the translator gave.
PropagationOverrides ==
    (OnTheWire /\ toolCall.Name = "apply_discount" /\ HoldsTotal)
    => /\ Head(toChild).method = "tools/call"
       /\ Head(toChild).params.name = "apply_discount"
       /\ Has(SentArguments, "total_price")
       /\ SentArguments["total_price"] = lastStructuredResult["total_price"]

\* an apply_discount line is on the wire with a held total that differs from
\* the total the translator gave
PropagationOverridesWitness ==
    /\ OnTheWire /\ toolCall.Name = "apply_discount" /\ HoldsTotal
    /\ Has(toolCall.Arguments.doc, "total_price")
    /\ toolCall.Arguments.doc["total_price"] # lastStructuredResult["total_price"]

\* the price of the product with a known id, in units
UnitPrice(id) == defaultProducts[FirstMatch(id)].Price \div 100

ValidItem(it) ==
    /\ IsObj(it)
    /\ Has(it.obj, "product_id") /\ IsStr(it.obj["product_id"])
    /\ it.obj["product_id"].str \in {"1", "2", "3"}
    /\ Has(it.obj, "quantity") /\ IsNum(it.obj["quantity"])
    /\ \E q \in 1..MaxQuantity : it.obj["quantity"].num = 100 * q

\* the sum of price * quantity over valid items, in units
RECURSIVE SumOfItems(_)
SumOfItems(items) ==
    IF items = <<>> THEN 0
    ELSE UnitPrice(Head(items).obj["product_id"].str)
            * (Head(items).obj["quantity"].num \div 100)
         + SumOfItems(Tail(items))

\* the invocation before the one the loop is at was calculate_total over a
\* non-empty list of valid items, and its reply was read
AfterValidTotal ==
    /\ heldFrom.idx = i - 1
    /\ heldFrom.call.Name = "calculate_total"
    /\ IsDoc(heldFrom.call.Arguments)
    /\ Has(heldFrom.call.Arguments.doc, "items")
    /\ IsArr(heldFrom.call.Arguments.doc["items"])
    /\ heldFrom.call.Arguments.doc["items"].arr # <<>>
    /\ \A k \in DOMAIN heldFrom.call.Arguments.doc["items"].arr :
          ValidItem(heldFrom.call.Arguments.doc["items"].arr[k])

\* the reply to apply_discount lies unread, after such a calculate_total
DiscountServed ==
    /\ pc = "CallToolScan" /\ fromChild # <<>>
    /\ toolCall.Name = "apply_discount"
    /\ Has(toolCall.Arguments.doc, "discount_percentage")
    /\ AfterValidTotal

\* the text of the one content item of a reply line
ReplyText(line) == line.doc["result"].obj["content"].arr[1].obj["text"]

\* C2: calculate_total over valid items followed directly by apply_discount
\* with percentage p: the handler is given the sum of price * quantity as
\* total_price, whatever the translator gave, and answers sum * p / 100;
\* items 1 x 5 and 2 x 30 at 30 percent give 20000 and 6000.
ChainEndToEnd ==
    DiscountServed
    => LET items == heldFrom.call.Arguments.doc["items"].arr
           sum == SumOfItems(items)
           p == toolCall.Arguments.doc["discount_percentage"].num \div 100
           reply == Head(fromChild)
       IN  /\ request.params.arguments["total_price"] = Num(Whole(sum))
           /\ Has(reply.doc, "result")
           /\ IsDoc(ReplyText(reply))
           /\ ReplyText(reply).doc["original_price"] = Num(Whole(sum))
           /\ ReplyText(reply).doc["discounted_price"] = Num(sum * p)
           /\ (items = <<Item("1", Whole(5)), Item("2", Whole(30))>> /\ p = 30)
              => /\ sum = 20000
                 /\ ReplyText(reply).doc["discounted_price"] = Num(Whole(6000))

\* the chain of the example, with a total of the translator's that is not the sum
ChainEndToEndWitness ==
    /\ DiscountServed
    /\ heldFrom.call.Arguments.doc["items"].arr
          = <<Item("1", Whole(5)), Item("2", Whole(30))>>
    /\ toolCall.Arguments.doc["discount_percentage"] = Num(Whole(30))
    /\ Has(toolCall.Arguments.doc, "total_price")
    /\ toolCall.Arguments.doc["total_price"] = Num(Whole(2000))

\* a call on the MCPServer has returned
Returned == callLog.status \in {"ok", "error"}

\* at most one line is in flight, and none once a call has returned
OneInFlight ==
    /\ Len(toChild) + Len(fromChild) <= 1
    /\ callLog.status # "pending" => (toChild = <<>> /\ fromChild = <<>>)

\* C3 as stated: every call that returned, with or without an error, wrote
\* exactly one request line and read exactly one response line, and no line
\* is written while the response to an earlier one is unread.
ExactlyOneLineEach ==
    /\ OneInFlight
    /\ Returned => (callLog.wrote = 1 /\ callLog.read = 1)

\* C3, amended: a call writes at most one line and reads at most one; it
\* wrote one and read one when it returns without a transport error; it reads
\* none only when the stream has ended, and writes none only when the child is
\* gone; no line is written while an earlier response is unread.
HalfDuplex ==
    /\ OneInFlight
    /\ callLog.wrote \in {0, 1} /\ callLog.read \in {0, 1}
    /\ callLog.read <= callLog.wrote
    /\ callLog.status = "ok" => (callLog.wrote = 1 /\ callLog.read = 1)
    /\ callLog.status = "pending" => (callLog.wrote = 1 /\ callLog.read = 0)
    /\ (Returned /\ callLog.read = 0) => (callLog.status = "error" /\ child = "exited")

\* a later CallTool of a turn wrote its line and lost the child before the reply
HalfDuplexWitness ==
    /\ callLog.method = "tools/call" /\ callLog.for >= 2
    /\ callLog.status = "error" /\ callLog.wrote = 1 /\ callLog.read = 0

Last(q) == q[Len(q)]

InLoop == pc \in {"Loop", "CallToolScan"}

\* the body of the loop ran last for an invocation that failed: its arguments
\* did not parse, or CallTool returned an error
StepFailed ==
    /\ pc = "Loop" /\ attempted # <<>>
    /\ \/ ~IsDoc(toolCall.Arguments)
       \/ callLog.status = "error"

\* C4: a step that fails is reported and the loop goes on with the next one;
\* the loop is left only when the body has run for every invocation, and it
\* is never stuck waiting for a reply.
OneBadStepDoesNotAbort ==
    /\ StepFailed
       => /\ \E k \in DOMAIN stepOut :
                stepOut[k] \in {"Error parsing arguments", "Error calling tool"}
          /\ i = Last(attempted) + 1
    /\ InLoop => i <= n + 1
    /\ ~InLoop => Len(attempted) = n
    /\ pc = "CallToolScan" => (toChild # <<>> \/ fromChild # <<>> \/ child = "exited")

\* the first of three invocations failed and the loop is at the third
OneBadStepDoesNotAbortWitness ==
    /\ pc = "CallToolScan" /\ i = 3 /\ n = 3
    /\ dispatched = <<2, 3>>

\* C5: the bodies run for the indices 1, 2, ... in this order, each once; the
\* request lines are written in the order of the list, at most one for an
\* invocation, and the line on the wire is that of the invocation at hand.
InOrderOnce ==
    /\ attempted = [k \in 1..Len(attempted) |-> k]
    /\ \A a, b \in DOMAIN dispatched : a < b => dispatched[a] < dispatched[b]
    /\ \A a \in DOMAIN dispatched : dispatched[a] \in DOMAIN attempted
    /\ pc = "Loop" => Len(attempted) = i - 1
    /\ pc = "CallToolScan"
       => /\ Len(attempted) = i
          /\ dispatched # <<>> /\ Last(dispatched) = i
          /\ callLog.for = i
          /\ request.params.name = toolCall.Name
          /\ toChild # <<>> => toChild = <<request>>
    /\ ~InLoop => Len(attempted) = n

\* a turn of three invocations is over, one of which failed to be dispatched
InOrderOnceWitness ==
    /\ pc = "Prompt" /\ n = 3 /\ Len(attempted) = 3 /\ Len(dispatched) = 2

\* C6: a turn starts with nothing held, and an apply_discount before which
\* no reply of this turn was read is sent with the translator's arguments:
\* it gets no total_price from an earlier turn.
ChainStatePerTurn ==
    /\ (pc = "Loop" /\ attempted = <<>>) => lastStructuredResult = Nil
    /\ (InLoop /\ heldFrom.idx = 0) => lastStructuredResult = Nil
    /\ (OnTheWire /\ heldFrom.idx = 0)
       => SentArguments = toolCall.Arguments.doc

\* after a turn that ended holding a total, the first invocation of a turn is
\* an apply_discount on the wire
ChainStatePerTurnWitness ==
    /\ earlierTotal /\ OnTheWire /\ i = 1
    /\ toolCall.Name = "apply_discount"

\* C7 as stated: a total_price put into an apply_discount invocation is that
\* of the reply to the invocation right before it in the list.
InjectedFromPreceding ==
    (OnTheWire /\ toolCall.Name = "apply_discount" /\ HoldsTotal)
    => heldFrom.idx = i - 1

\* what the reply to a request decodes to, from the handler's return value
HandlerStructured(req) ==
    LET r == Handler(req.params.name, req.params.arguments) IN
    IF IsFault(r)
    THEN [jsonrpc |-> Str("2.0"), id |-> Num(Whole(req.id)),
          error |-> Obj([code |-> Num(Whole(-32603)), message |-> Str(r.fault)])]
    ELSE IF IsDoc(r.content[1]) THEN r.content[1].doc
    ELSE [success |-> Bool(TRUE), message |-> r.content[1]]

\* the reply to the invocation the body ran for last was read and decoded
ReplyDecoded ==
    /\ pc = "Loop" /\ attempted # <<>> /\ IsDoc(toolCall.Arguments)
    /\ callLog.method = "tools/call" /\ callLog.for = Last(attempted)
    /\ callLog.status = "ok"

\* C8: after a reply was read and decoded, the held result is that reply's
\* and nothing else; an apply_discount right after an apply_discount finds no
\* total_price held and is sent with the translator's arguments.
LastWriteWins ==
    /\ ReplyDecoded
       => /\ lastStructuredResult = HandlerStructured(request)
          /\ heldFrom.idx = Last(attempted)
    /\ (OnTheWire /\ toolCall.Name = "apply_discount"
          /\ heldFrom.idx = i - 1 /\ heldFrom.call.Name = "apply_discount")
       => /\ ~HoldsTotal
          /\ SentArguments = toolCall.Arguments.doc

\* calculate_total, apply_discount, apply_discount: the second discount is on
\* the wire and the first one was applied to a total that was put in
LastWriteWinsWitness ==
    /\ OnTheWire /\ i = 3 /\ toolCall.Name = "apply_discount"
    /\ heldFrom.idx = 2 /\ heldFrom.call.Name = "apply_discount"
    /\ Has(lastStructuredResult, "original_price")
    /\ lastStructuredResult["original_price"] = Num(Whole(20000))

\* CallTool was called for the invocation at hand and has read no reply yet
CallBuilt ==
    /\ attempted # <<>> /\ IsDoc(toolCall.Arguments)
    /\ callLog.method = "tools/call" /\ callLog.for = Last(attempted)
    /\ callLog.read = 0

\* held results whose total_price is no number
OddHelds == {[success |-> Bool(TRUE), total_price |-> Str("20000")],
             [success |-> Bool(TRUE), total_price |-> Null]}

\* C9: an invocation whose arguments parse is handed to CallTool; its
\* arguments are the translator's when it is not apply_discount, or nothing
\* is held, or the held result has no numeric total_price; when the total is
\* put in, every other argument is the translator's.
PropagationFrame ==
    /\ (attempted # <<>> /\ IsDoc(toolCall.Arguments) /\ pc # "Loop")
       => (callLog.method = "tools/call" /\ callLog.for = Last(attempted))
    /\ (pc = "Loop" /\ attempted # <<>> /\ IsDoc(toolCall.Arguments))
       => (callLog.method = "tools/call" /\ callLog.for = Last(attempted))
    /\ CallBuilt
       => LET sent == request.params.arguments
              orig == toolCall.Arguments.doc
          IN  /\ request.params.name = toolCall.Name
              /\ pc = "CallToolScan" /\ toChild # <<>> => Head(toChild) = request
              /\ IF toolCall.Name = "apply_discount" /\ HoldsTotal
                 THEN /\ DOMAIN sent = DOMAIN orig \cup {"total_price"}
                      /\ \A k \in DOMAIN orig \ {"total_price"} : sent[k] = orig[k]
                 ELSE sent = orig
              /\ \A held \in OddHelds : Propagate(toolCall.Name, orig, held) = orig

\* the total is put into an apply_discount that carries a percentage
PropagationFrameWitness ==
    /\ CallBuilt /\ OnTheWire /\ toolCall.Name = "apply_discount" /\ HoldsTotal
    /\ Has(toolCall.Arguments.doc, "discount_percentage")
    /\ Has(toolCall.Arguments.doc, "total_price")

-----------------------------------------------------------------------------
(* Properties of the handlers, checked under HandlerSpec.                  *)

KnownIds == {"1", "2", "3"}

\* an element of items with an unknown id, or with a quantity that is no
\* whole number or lies outside 1..1000
FaultyItem(it) ==
    /\ IsObj(it) /\ Has(it.obj, "product_id") /\ IsStr(it.obj["product_id"])
    /\ \/ it.obj["product_id"].str \notin KnownIds
       \/ /\ Has(it.obj, "quantity") /\ IsNum(it.obj["quantity"])
          /\ ~\E q \in 1..MaxQuantity : it.obj["quantity"].num = 100 * q

\* the request carries an application fault: an unknown product id, a
\* quantity that is no integer or out of range, a required argument missing
ApplicationFault(c) ==
    /\ c.arguments # Nil
    /\ \/ /\ c.name = "get_price"
          /\ \/ ~Has(c.arguments, "product_id")
             \/ /\ IsStr(c.arguments["product_id"])
                /\ c.arguments["product_id"].str \notin KnownIds
       \/ /\ c.name = "calculate_total"
          /\ \/ ~Has(c.arguments, "items")
             \/ /\ IsArr(c.arguments["items"])
                /\ \E k \in DOMAIN c.arguments["items"].arr :
                      FaultyItem(c.arguments["items"].arr[k])
       \/ /\ c.name = "apply_discount"
          /\ \/ ~Has(c.arguments, "total_price")
             \/ ~Has(c.arguments, "discount_percentage")

\* C10 as stated: every application fault is answered by a CallToolResult
\* with isError set and a nil error.
ApplicationFaultsAreResults ==
    ApplicationFault(hcall) => (~IsFault(hret) /\ hret.isError)

\* the handler was called with an items array whose elements all are
\* objects with a known id and a numeric quantity
TotalAsked ==
    /\ hcall.name = "calculate_total" /\ hcall.arguments # Nil
    /\ Has(hcall.arguments, "items") /\ IsArr(hcall.arguments["items"])
    /\ \A k \in DOMAIN hcall.arguments["items"].arr :
          LET it == hcall.arguments["items"].arr[k] IN
          /\ IsObj(it)
          /\ Has(it.obj, "product_id") /\ IsStr(it.obj["product_id"])
          /\ it.obj["product_id"].str \in KnownIds
          /\ Has(it.obj, "quantity") /\ IsNum(it.obj["quantity"])

AskedItems == hcall.arguments["items"].arr

AllValid(items) == \A k \in DOMAIN items : ValidItem(items[k])

\* the handler returned a result that is no error and whose text is JSON
Succeeded == ~IsFault(hret) /\ ~hret.isError /\ IsDoc(hret.content[1])

\* C14: for a non-empty list of items with known ids and whole quantities in
\* 1..1000, repeated ids included, calculate_total returns success with
\* total_price the sum of price * quantity and item_count the length of the list.
TotalIsSum ==
    (TotalAsked /\ AskedItems # <<>> /\ AllValid(AskedItems))
    => /\ Succeeded
       /\ hret.content[1].doc["success"] = Bool(TRUE)
       /\ hret.content[1].doc["total_price"] = Num(Whole(SumOfItems(AskedItems)))
       /\ hret.content[1].doc["item_count"] = Num(Whole(Len(AskedItems)))

\* two items of the same product were totalled
TotalIsSumWitness ==
    /\ TotalAsked /\ Len(AskedItems) = 2 /\ AllValid(AskedItems)
    /\ AskedItems[1].obj["product_id"] = AskedItems[2].obj["product_id"]
    /\ AskedItems[1].obj["quantity"] = Num(Whole(MaxQuantity))
    /\ Succeeded

\* C15: calculate_total accepts a quantity exactly when it is a whole number
\* from 1 to 1000: over items that are otherwise well formed it returns
\* isError exactly when some quantity is 0, negative, above 1000 or no
\* whole number, and it succeeds for 1 and for 1000.
QuantityRange ==
    TotalAsked
    => /\ ~IsFault(hret)
       /\ hret.isError <=> ~AllValid(AskedItems)
       /\ \A q \in {0, Whole(-1), -250, 250, Whole(MaxQuantity + 1)} :
             (\E k \in DOMAIN AskedItems : AskedItems[k].obj["quantity"] = Num(q))
             => hret.isError
       /\ (AskedItems # <<>> /\ \A k \in DOMAIN AskedItems :
              AskedItems[k].obj["quantity"] \in {Num(Whole(1)), Num(Whole(MaxQuantity))})
          => Succeeded

\* the ceiling itself was accepted
QuantityRangeWitness ==
    /\ TotalAsked /\ Len(AskedItems) = 1
    /\ AskedItems[1].obj["quantity"] = Num(Whole(MaxQuantity))
    /\ Succeeded

\* apply_discount was called with a numeric total_price and percentage
DiscountAsked ==
    /\ hcall.name = "apply_discount" /\ hcall.arguments # Nil
    /\ Has(hcall.arguments, "total_price") /\ IsNum(hcall.arguments["total_price"])
    /\ Has(hcall.arguments, "discount_percentage")
    /\ IsNum(hcall.arguments["discount_percentage"])

AskedTotal == hcall.arguments["total_price"].num
AskedPercentage == hcall.arguments["discount_percentage"].num

DiscountDomainChecked ==
    DiscountAsked
    => LET inDomain == AskedTotal > 0 /\ AskedPercentage > 0
                       /\ AskedPercentage < Whole(100)
       IN  /\ ~IsFault(hret)
           /\ hret.isError <=> ~inDomain

\* get_price was called with a string product_id
PriceAsked ==
    /\ hcall.name = "get_price" /\ hcall.arguments # Nil
    /\ Has(hcall.arguments, "product_id") /\ IsStr(hcall.arguments["product_id"])

AskedId == hcall.arguments["product_id"].str

\* the prices, names and messages of the three products
PriceList == [id \in KnownIds |->
    CASE id = "1" -> [price |-> 1000, name |-> "Laptop",
                      message |-> "The price of Laptop is $1000.00"]
      [] id = "2" -> [price |-> 500, name |-> "Smartphone",
                      message |-> "The price of Smartphone is $500.00"]
      [] id = "3" -> [price |-> 300, name |-> "Tablet",
                      message |-> "The price of Tablet is $300.00"]]

\* C18: get_price answers every string id: for 1, 2 and 3 a result that is
\* no error, with success, the price 1000, 500, 300, the name and the message
\* "The price of {name} is ${price with 2 decimals}"; for any other id an
\* isError result with success false and the id that was asked for.
PriceOfEveryId ==
    PriceAsked
    => /\ ~IsFault(hret) /\ IsDoc(hret.content[1])
       /\ LET r == hret.content[1].doc IN
          IF AskedId \in KnownIds
          THEN /\ ~hret.isError
               /\ r["success"] = Bool(TRUE)
               /\ r["product_id"] = Str(AskedId)
               /\ r["price"] = Num(Whole(PriceList[AskedId].price))
               /\ r["product_name"] = Str(PriceList[AskedId].name)
               /\ r["message"] = Str(PriceList[AskedId].message)
          ELSE /\ hret.isError
               /\ r["success"] = Bool(FALSE)
               /\ r["product_id"] = Str(AskedId)

\* the price of an id that is no product's was asked
PriceOfEveryIdWitness ==
    /\ PriceAsked /\ AskedId \notin KnownIds /\ AskedId # ""
    /\ ~IsFault(hret) /\ hret.isError

-----------------------------------------------------------------------------
(* Properties of the client's handling of replies, checked under Spec.     *)

\* the line is a response whose CallToolResult has isError set
IsErrorResult(line) ==
    /\ IsDoc(line) /\ Has(line.doc, "result") /\ IsObj(line.doc["result"])
    /\ Has(line.doc["result"].obj, "isError")
    /\ line.doc["result"].obj["isError"] = Bool(TRUE)

\* the line is a JSON-RPC error envelope
IsErrorEnvelope(line) == IsDoc(line) /\ Has(line.doc, "error")

\* C12 as stated: after a tools/call reply whose CallToolResult has isError
\* set was decoded, the structured result that is held has no success = true.
ErrorResultsHeldAsFailures ==
    (ReplyDecoded /\ IsErrorResult(callLog.line))
    => ~(Has(lastStructuredResult, "success")
         /\ lastStructuredResult["success"] = Bool(TRUE))

\* what the loop body prints to explain a step
Explanations == {"message", "Error calling tool", "Error parsing arguments"}

\* C13 as stated: when the step the loop body ran last has failed (a transport
\* error, a JSON-RPC error envelope, an isError result), the body has printed
\* some text for it.
FailedStepsExplained ==
    (StepFailed \/ (ReplyDecoded /\ (IsErrorResult(callLog.line)
                                      \/ IsErrorEnvelope(callLog.line))))
    => \E k \in DOMAIN stepOut : stepOut[k] \in Explanations

-----------------------------------------------------------------------------
(* Properties of the child's lifecycle.                                    *)

\* C19 as stated: Close closes the input pipe and then waits: a Close that
\* has returned has waited for the child, whatever the close of the pipe
\* returned, and no wait comes before the close.
CloseWaits ==
    /\ \A k \in DOMAIN released : released[k] = "wait" => k > 1
    /\ (pc = "Exited" /\ released # <<>>) => released[Len(released)] = "wait"

\* C20 as stated: when the client has ended after NewMCPServer succeeded, the
\* child's input is closed, the child has been waited for and runs no more.
ChildReleased ==
    (pc = "Exited" /\ child # "none")
    => /\ stdinClosed
       /\ released # <<>> /\ released[Len(released)] = "wait"
       /\ child = "exited"

-----------------------------------------------------------------------------
(* Properties of the client's decoding, checked under WireSpec.            *)

\* the call that ran last has read a line that is no JSON
ReadNoJSON == callLog.read = 1 /\ ~IsDoc(callLog.line)

\* C11 as stated: whatever line the child answers with, the client decodes
\* it without a crash, and a line that is no JSON comes back from the call as
\* a fault: it is not taken for a result and is not held as one.
DecodedSafely ==
    /\ \A k \in DOMAIN stepOut : stepOut[k] # "panic"
    /\ ReadNoJSON
       => /\ callLog.status = "error"
          /\ callLog.method = "tools/call"
             => ~(heldFrom.idx = callLog.for /\ lastStructuredResult # Nil
                  /\ Has(lastStructuredResult, "success")
                  /\ lastStructuredResult["success"] = Bool(TRUE))

-----------------------------------------------------------------------------
(* Further properties of the handlers, checked under HandlerSpec.          *)

\* C25 as stated: whatever the tool and its input, the text of the one
\* content item of the result is a JSON object with a success field.
SameResultShape ==
    (hcall # NoHandlerCall /\ ~IsFault(hret))
    => /\ Len(hret.content) = 1
       /\ IsDoc(hret.content[1])
       /\ Has(hret.content[1].doc, "success")

\* calculate_total was called with an items array, of any elements
ItemsGiven ==
    /\ hcall.name = "calculate_total" /\ hcall.arguments # Nil
    /\ Has(hcall.arguments, "items") /\ IsArr(hcall.arguments["items"])

\* the check an element fails first, in the order item shape, product_id
\* kind, product existence, quantity kind, integer, positive, at most 1000;
\* "" for an element that passes them all
FirstFailedCheck(it) ==
    IF ~IsObj(it) THEN "Invalid item format"
    ELSE IF ~Has(it.obj, "product_id") \/ ~IsStr(it.obj["product_id"])
    THEN "Invalid product ID format"
    ELSE IF it.obj["product_id"].str \notin KnownIds
    THEN "Product with ID " \o it.obj["product_id"].str \o " not found"
    ELSE IF ~Has(it.obj, "quantity") \/ ~IsNum(it.obj["quantity"])
    THEN "Invalid quantity format"
    ELSE IF it.obj["quantity"].num % 100 # 0 THEN "Quantity must be an integer"
    ELSE IF it.obj["quantity"].num <= 0 THEN "Quantity must be greater than 0"
    ELSE IF it.obj["quantity"].num > 100000 THEN "Quantity cannot exceed 1000"
    ELSE ""

\* the indices of the elements that fail a check
InvalidAt(items) == {k \in DOMAIN items : FirstFailedCheck(items[k]) # ""}

\* C30: when some element of items is invalid, calculate_total returns an
\* isError result without a total_price, whose text is that of the first
\* invalid element in list order and of the first check that element fails;
\* a quantity of -2.5 is reported as no integer.
AllOrNothingInOrder ==
    (ItemsGiven /\ InvalidAt(AskedItems) # {})
    => LET first == CHOOSE k \in InvalidAt(AskedItems) :
                        \A j \in InvalidAt(AskedItems) : k <= j
       IN  /\ ~IsFault(hret) /\ hret.isError
           /\ ~IsDoc(hret.content[1])
           /\ hret.content = <<Str(FirstFailedCheck(AskedItems[first]))>>
           /\ (IsObj(AskedItems[first]) /\ Has(AskedItems[first].obj, "product_id")
                 /\ AskedItems[first].obj["product_id"] \in {Str("1"), Str("2"), Str("3")}
                 /\ Has(AskedItems[first].obj, "quantity")
                 /\ AskedItems[first].obj["quantity"] = Num(-250))
              => hret.content = <<Str("Quantity must be an integer")>>

\* two invalid elements that fail different checks, the second one first
AllOrNothingInOrderWitness ==
    /\ ItemsGiven /\ Len(AskedItems) = 2 /\ InvalidAt(AskedItems) = {1, 2}
    /\ FirstFailedCheck(AskedItems[1]) = "Quantity must be an integer"
    /\ FirstFailedCheck(AskedItems[2]) = "Invalid item format"
    /\ ~IsFault(hret) /\ hret.isError

\* the two handlers of apply_discount differ: the one answers t * p / 100,
\* the other t - t * p / 100, which are equal only for p = 50 or t = 0
DiscountsDiffer ==
    DiscountAsked
    => LET canonical == hret.content[1].doc["discounted_price"].num
           legacy == AskedTotal - (AskedTotal \div 100) * (AskedPercentage \div 100)
       IN  /\ Succeeded
           /\ 100 * canonical = AskedTotal * (AskedPercentage \div 100)
           /\ legacyRet = Result(FALSE, Str("Discounted price is $" \o Fmt2(legacy)))
           /\ canonical = legacy <=> (AskedPercentage = Whole(50) \/ AskedTotal = 0)

\* the elements of items that pass every check of the canonical handler
RECURSIVE ValidOnes(_)
ValidOnes(items) ==
    IF items = <<>> THEN <<>>
    ELSE (IF FirstFailedCheck(Head(items)) = "" THEN <<Head(items)>> ELSE <<>>)
         \o ValidOnes(Tail(items))

\* the elements of items the other handler counts: objects with a string id
\* of a product and a numeric quantity, whatever the quantity
RECURSIVE CountedOnes(_)
CountedOnes(items) ==
    IF items = <<>> THEN <<>>
    ELSE (IF FirstFailedCheck(Head(items)) \in
                {"", "Quantity must be an integer", "Quantity must be greater than 0",
                 "Quantity cannot exceed 1000"}
          THEN <<Head(items)>> ELSE <<>>)
         \o CountedOnes(Tail(items))

\* the sum of price * quantity, the quantity cut to a whole number
RECURSIVE SumCut(_)
SumCut(items) ==
    IF items = <<>> THEN 0
    ELSE LET q == Head(items).obj["quantity"].num IN
         UnitPrice(Head(items).obj["product_id"].str)
            * (IF q >= 0 THEN q \div 100 ELSE -((-q) \div 100))
         + SumCut(Tail(items))

\* C27 as stated: the discounts differ, and for a list with an invalid item
\* the canonical calculate_total returns an error while the other one skips
\* the item and returns the total of the rest.
HandlerSetsDifferSkipping ==
    /\ DiscountsDiffer
    /\ (ItemsGiven /\ InvalidAt(AskedItems) # {})
       => /\ ~IsFault(hret) /\ hret.isError
          /\ legacyRet = Result(FALSE, Str("Total price is $"
                \o Fmt2(Whole(SumOfItems(ValidOnes(AskedItems))))))

\* C27, amended: the discounts differ, and for a list with an invalid item
\* the canonical calculate_total returns an error while the other one returns
\* a total without an error: it skips an item of the wrong shape or of an
\* unknown product, and counts an item whose quantity is not a whole number
\* from 1 to 1000, with the quantity cut to a whole number.
HandlerSetsDiffer ==
    /\ DiscountsDiffer
    /\ (ItemsGiven /\ InvalidAt(AskedItems) # {})
       => /\ ~IsFault(hret) /\ hret.isError
          /\ legacyRet = Result(FALSE, Str("Total price is $"
                \o Fmt2(Whole(SumCut(CountedOnes(AskedItems))))))

\* a valid item and one above the ceiling: an error here, a total there
HandlerSetsDifferWitness ==
    /\ ItemsGiven /\ Len(AskedItems) = 2 /\ InvalidAt(AskedItems) = {2}
    /\ FirstFailedCheck(AskedItems[2]) = "Quantity cannot exceed 1000"
    /\ hret.isError /\ ~IsFault(legacyRet) /\ ~legacyRet.isError

-----------------------------------------------------------------------------
(* Properties of the transport's calls, checked under Spec.                *)

\* C21: when one of the three steps of NewMCPServer fails it returns a nil
\* MCPServer with the error, and main ends without a call on it; an MCPServer
\* is returned only when both pipes are attached and the child is started.
SpawnAtomic ==
    /\ spawned.failed # "none"
       => /\ spawned.returned = "nil"
          /\ pc = "Exited" /\ child = "none"
          /\ callLog = NoLog /\ released = <<>>
    /\ spawned.returned = "server"
       => /\ spawned.StdinPipe /\ spawned.StdoutPipe /\ spawned.Start
          /\ spawned.failed = "none"
          /\ child # "none"
    /\ pc \notin {"NewMCPServer", "Exited"} => spawned.returned = "server"
    /\ child # "none" => spawned.returned = "server"

\* both pipes were made and the start of the process failed
SpawnAtomicWitness ==
    /\ spawned.failed = "Start" /\ spawned.StdinPipe /\ spawned.StdoutPipe
    /\ ~spawned.Start /\ pc = "Exited"

\* a CallTool has returned
CallToolReturned == callLog.method = "tools/call" /\ Returned

\* C22: CallTool returns an error exactly when the request was not written
\* or no line was read; when Scan reads a line, whatever it carries, CallTool
\* returns that very line with a nil error.
ReadFailureDistinct ==
    /\ [](CallToolReturned
            => /\ callLog.status = "error" <=> callLog.read = 0
               /\ callLog.wrote = 0 => callLog.read = 0)
    /\ [][(pc = "CallToolScan" /\ fromChild # <<>> /\ callLog' # callLog)
            => /\ callLog'.status = "ok"
               /\ callLog'.line = Head(fromChild)]_vars

\* CallTool has returned, with a nil error, a line whose result has isError
ReadFailureDistinctWitness ==
    /\ CallToolReturned /\ callLog.status = "ok"
    /\ IsErrorResult(callLog.line)

\* ListTools has returned, and Initialize has
ListToolsReturned == callLog.method = "tools/list" /\ Returned
InitializeReturned == callLog.method = "initialize" /\ Returned

\* the descriptors a tools/list reply advertises: the objects of result.tools
Advertised(line) == SelectSeq(line.doc["result"].obj["tools"].arr, IsObj)

\* C23: ListTools returns an error whenever the reply it read has no object
\* result or no array result.tools; otherwise it returns one tool per
\* advertised descriptor, in the order of the reply, with the descriptor's
\* name, description and input schema.
ToolsAsAdvertised ==
    (ListToolsReturned /\ callLog.read = 1)
      => /\ ~ToolsFormatOk(callLog.line) <=> callLog.status = "error"
         /\ ~ToolsFormatOk(callLog.line) => (tools = <<>> /\ pc # "CheckKey")
         /\ ToolsFormatOk(callLog.line)
              => /\ Len(tools) = Len(Advertised(callLog.line))
                 /\ \A k \in 1..Len(tools) :
                      LET d == Advertised(callLog.line)[k].obj IN
                      /\ tools[k].Type = "function"
                      /\ Has(d, "name") /\ IsStr(d["name"])
                           => tools[k].Name = d["name"].str
                      /\ Has(d, "description") /\ IsStr(d["description"])
                           => tools[k].Description = d["description"].str
                      /\ Has(d, "inputSchema") /\ IsObj(d["inputSchema"])
                           => tools[k].Parameters = d["inputSchema"]

\* ListTools has returned the four tools of the server, in the reply's order
ToolsAsAdvertisedWitness ==
    /\ ListToolsReturned /\ callLog.status = "ok"
    /\ Len(tools) = 4
    /\ tools[1].Name = "apply_discount" /\ tools[4].Name = "help"
    /\ tools[3].Description = "Get the price of a product by its ID."

\* C24: Initialize fails exactly when no reply line was read or the line
\* read does not parse; a line that parses and has no serverInfo is accepted.
HandshakeTolerant ==
    InitializeReturned
      => /\ callLog.status = "error" <=> (callLog.read = 0 \/ ~IsDoc(callLog.line))
         /\ callLog.status = "ok" => pc = "ListTools"
         /\ callLog.status = "error" => pc \in {"Close", "Wait", "Exited"}

\* Initialize has succeeded with a reply that has no serverInfo
HandshakeTolerantWitness ==
    /\ InitializeReturned /\ callLog.status = "ok"
    /\ ~InitializeOkWithIdentity(callLog.line)

\* the loop of a turn is over and the polish step has run
TurnOver == pc = "Prompt" /\ polish.calls > 0

\* the polish step does not run before the loop is over, runs once, and is
\* handed the last message decoded in the turn
PolishedOnceOnLast ==
    /\ InLoop => polish.calls = 0
    /\ pc # "Prompt" => polish.calls = 0
    /\ TurnOver
         => /\ polish.calls = 1
            /\ n >= 0 /\ i > n
            /\ polish.handed = (IF surfaced = Null THEN Str("") ELSE surfaced)

\* C26: after the invocations of a turn the polish step runs once, on the
\* message of the last invocation of the turn whose decoded result had one;
\* when the step fails, what it shows is that message, not rewritten.
PolishFallsBack ==
    /\ PolishedOnceOnLast
    /\ (TurnOver /\ polish.failed) => polish.shown = polish.handed

\* C28: once the client is at Close, the child's input ends, the child
\* exits and the client exits, having returned from Wait when it called it;
\* a signal ends a running child at any time, whichever comes first.
ShutdownTerminates ==
    /\ (pc = "Close") ~> (pc = "Exited" /\ child = "exited")
    /\ (pc = "Wait") ~> (pc = "Exited" /\ released = <<"close", "wait">>)
    /\ [](child = "running" => ENABLED ServerSignal)

\* the client has closed the input, waited and exited, after a turn with a call
ShutdownTerminatesWitness ==
    /\ pc = "Exited" /\ child = "exited"
    /\ released = <<"close", "wait">>
    /\ dispatched # <<>>

\* a call on the MCPServer is in its Scan
Pending == pc \in {"InitializeScan", "ListToolsScan", "CallToolScan"}

\* the step with which a pending call returns
CallReturns == Pending /\ pc' # pc

\* a call on the MCPServer begins
CallBegins == pc \in {"Initialize", "ListTools", "Loop"} /\ callLog' # callLog

\* a pending call cannot return yet
Blocked == Pending /\ ~CanScan /\ ~ScanEnds

\* C29 as stated: when the child has exited, at whatever point, the pending
\* call returns an error and does not block, and every later call returns an
\* error; the client is blocked only while the child is alive and silent.
DeadChildFails ==
    /\ (Pending /\ child = "exited") ~> ~Pending
    /\ [][(CallReturns /\ child = "exited") => callLog'.status = "error"]_vars
    /\ [][(CallBegins /\ child = "exited") => callLog'.status = "error"]_vars
    /\ [](Blocked => (child = "running" /\ fromChild = <<>>))

\* C29, amended: when the child has exited, the pending call returns and does
\* not block: with an error when the child had written no reply, with the
\* reply when the child wrote it before it exited; every call begun after
\* that returns an error at its write; the client is blocked only while the
\* child is alive and silent.
DeadChildReturns ==
    /\ (Pending /\ child = "exited") ~> ~Pending
    /\ [][(CallReturns /\ child = "exited")
            => IF fromChild = <<>>
               THEN callLog'.status = "error" /\ callLog'.read = 0
               ELSE callLog'.read = 1 /\ callLog'.line = Head(fromChild)]_vars
    /\ [][(CallBegins /\ child = "exited")
            => (callLog'.status = "error" /\ callLog'.wrote = 0)]_vars
    /\ [](Blocked => (child = "running" /\ fromChild = <<>>))

\* a CallTool whose request was written has returned an error, the child
\* having exited before it wrote a reply
DeadChildReturnsWitness ==
    /\ CallToolReturned /\ callLog.status = "error"
    /\ callLog.wrote = 1 /\ callLog.read = 0
    /\ child = "exited" /\ InLoop

=============================================================================
